---- MODULE Spec2Model ----
(***************************************************************************)
(* scanhost.py of CertStreamMonitor: the batch that selects the rows of    *)
(* the certificate table still under investigation, probes each hostname,  *)
(* and records either a failed attempt or the time the host answered.      *)
(*                                                                         *)
(* Strings of the program are sequences of one-character strings, so that  *)
(* str(), int(), LIKE '_', split(".") and path concatenation are computed  *)
(* as the code computes them.  Opaque texts (an IP address, an e-mail      *)
(* address, a page title) are one-element sequences.                       *)
(***************************************************************************)
EXTENDS Integers, Sequences, FiniteSets, TLC

VARIABLES
    table,        \* the rows of TABLEname, in store order
    MaxAttempts,  \* CONF.MaxAttempts
    uafile,       \* the file UAFILE names: "unreadable", "empty" or "one" (line)
    registry,     \* the record the RDAP registry holds for the hosts' address
    conf,         \* per-process flags: fqdn_dirs, Notification_Destination, Safe_Browsing_API_Key
    pc,           \* "idle": no process running; "loop": inside the for loop of a run
    rows,         \* cur.fetchall() of the running process
    idx,          \* position of the for loop in rows
    lines,        \* the user-agent pool of the running process
    files,        \* alert artifacts on disk: path -> content
    dirs,         \* directories on disk
    ev,           \* what the last step did (observation only)
    runs,         \* number of runs ended so far (observation only)
    failedOnly    \* per table row: it started unset and every run that selected it so far
                  \* probed it over the network, the probe failed and the count was stored

vars == <<table, MaxAttempts, uafile, registry, conf, pc, rows, idx, lines, files, dirs, ev, runs, failedOnly>>

-----------------------------------------------------------------------------
(* Bounds of the exploration *)

RowIds == {1, 2}      \* the table holds two rows
MaxMaxAttempts == 2   \* CONF.MaxAttempts ranges over 1..MaxMaxAttempts
LongMaxAttempts == 10 \* CONF.MaxAttempts of the long scenario
ExtraRuns == 1        \* runs explored beyond the MaxAttempts ones

-----------------------------------------------------------------------------
(* Texts *)

Digits == <<"0", "1", "2", "3", "4", "5", "6", "7", "8", "9">>

IsDigit(c) == \E i \in 1..10 : Digits[i] = c

DigitVal(c) == (CHOOSE i \in 1..10 : Digits[i] = c) - 1

\* str(n) for n >= 0
RECURSIVE PyStr(_)
PyStr(n) ==
    IF n < 10 THEN <<Digits[n + 1]>>
    ELSE PyStr(n \div 10) \o <<Digits[(n % 10) + 1]>>

\* int(s) accepts a text of decimal digits; anything else a selected row can
\* hold ('' or a one-character non-digit) raises ValueError
IntOk(s) == Len(s) > 0 /\ \A i \in 1..Len(s) : IsDigit(s[i])

RECURSIVE PyInt(_)
PyInt(s) ==
    IF Len(s) = 0 THEN 0
    ELSE 10 * PyInt(SubSeq(s, 1, Len(s) - 1)) + DigitVal(s[Len(s)])

Disabled == <<"D", "i", "s", "a", "b", "l", "e", "d">>

Pad2(n) == IF n < 10 THEN <<"0">> \o PyStr(n) ELSE PyStr(n)

Pad4(n) ==
    IF n < 10 THEN <<"0", "0", "0">> \o PyStr(n)
    ELSE IF n < 100 THEN <<"0", "0">> \o PyStr(n)
    ELSE IF n < 1000 THEN <<"0">> \o PyStr(n)
    ELSE PyStr(n)

\* datetime.utcnow().replace(microsecond=0).isoformat()
IsoFormat(t) ==
    Pad4(t.Y) \o <<"-">> \o Pad2(t.M) \o <<"-">> \o Pad2(t.D) \o <<"T">>
    \o Pad2(t.h) \o <<":">> \o Pad2(t.m) \o <<":">> \o Pad2(t.s)

\* the clock readings a run may see
Times ==
    { [Y |-> 2019, M |-> 3, D |-> 7, h |-> 9, m |-> 5, s |-> 0],
      [Y |-> 2019, M |-> 11, D |-> 21, h |-> 17, m |-> 40, s |-> 59] }

-----------------------------------------------------------------------------
(* The store *)

\* a value of the StillInvestig column: NULL or a text
Null == [null |-> TRUE, text |-> <<>>]
Text(s) == [null |-> FALSE, text |-> s]

Hostnames == { <<"a", ".", "b">>, <<"*", ".", "b">> }
\* the Fingerprint of the i-th row: distinct rows have distinct fingerprints
FingerprintOf(i) == <<"A", "B", ":">> \o PyStr(i)

\* values of StillInvestig a row may hold when the pipeline first sees it
InitStates == { Null, Text(<<>>), Text(<<"x">>), Text(<<"1">>) }

Tables ==
    { t \in [RowIds -> [Domain : Hostnames, Fingerprint : {FingerprintOf(i) : i \in RowIds},
                         StillInvestig : InitStates]] :
        \A i \in RowIds : t[i].Fingerprint = FingerprintOf(i) }

\* the selection with LIKE '%' in place of LIKE '_'
Pending_any_text(v) == v.null \/ v.text = <<>> \/ Len(v.text) >= 1

\* the selection without the StillInvestig = '' clause
Pending_no_empty(v) == v.null \/ Len(v.text) = 1

\* FROM TABLEname WHERE StillInvestig IS NULL or StillInvestig = '' or StillInvestig LIKE '_'
Pending(v) == v.null \/ v.text = <<>> \/ Len(v.text) = 1

\* cur.execute("SELECT Domain,Fingerprint,StillInvestig ..."); rows = cur.fetchall()
fetch_pending(t) == SelectSeq(t, LAMBDA r : Pending(r.StillInvestig))

\* the update keyed by Domain alone
Update_by_domain(t, v, d, f) ==
    [i \in DOMAIN t |->
        IF t[i].Domain = d THEN [t[i] EXCEPT !.StillInvestig = Text(v)] ELSE t[i]]

\* the UPDATE without its WHERE clause
Update_no_where(t, v, d, f) ==
    [i \in DOMAIN t |-> [t[i] EXCEPT !.StillInvestig = Text(v)]]

\* UPDATE TABLEname SET StillInvestig = ? WHERE Domain = ? AND Fingerprint = ?
Update(t, v, d, f) ==
    [i \in DOMAIN t |->
        IF t[i].Domain = d /\ t[i].Fingerprint = f
        THEN [t[i] EXCEPT !.StillInvestig = Text(v)]
        ELSE t[i]]

-----------------------------------------------------------------------------
(* The user-agent pool *)

UA == <<"U", "A">>
UAFileLine == <<"F", "x">>

\* what open(UAFILE).read().splitlines() can give: unreadable, no line, one line
UAFiles == { "unreadable", "empty", "one" }

\* lines = open(UAFILE).read().splitlines(), or lines = UA when that raises.
\* UA is a string, so the pool random.choice() then draws from is the
\* sequence of its characters.
load_lines(f) ==
    IF f = "unreadable" THEN [i \in 1..Len(UA) |-> <<UA[i]>>]
    ELSE IF f = "empty" THEN <<>>
    ELSE <<UAFileLine>>

-----------------------------------------------------------------------------
(* The prober *)

Contains(s, c) == \E i \in 1..Len(s) : s[i] = c

NoResponse == [status |-> 0, body |-> <<>>]

\* what requests.get() can do: answer, raise SSLError, ConnectionError,
\* another RequestException, any other Exception, or be interrupted
Responses ==
    { [status |-> 200, body |-> <<"<html>", "<TITLE>", "Login", "</title>">>],
      [status |-> 404, body |-> <<"<html>">>] }

NetErrors == { "ssl", "conn", "req", "other" }

\* get_requests() without the wildcard test
get_requests_no_wildcard_test(hostname, pool, uai, net) ==
    IF Len(pool) = 0
    THEN [res |-> "raise", requested |-> FALSE, ua |-> <<>>, r |-> NoResponse]
    ELSE IF net.get = "ok"
    THEN [res |-> "r", requested |-> TRUE, ua |-> pool[uai], r |-> net.r]
    ELSE IF net.get = "interrupt"
    THEN [res |-> "exit", requested |-> TRUE, ua |-> pool[uai], r |-> NoResponse]
    ELSE [res |-> "None", requested |-> TRUE, ua |-> pool[uai], r |-> NoResponse]

\* get_requests(): res is "None" (returned None), "r" (returned the
\* response), "raise" (an exception left the function) or "exit" (sys.exit)
get_requests(hostname, pool, uai, net) ==
    IF Contains(hostname, "*")
    THEN [res |-> "None", requested |-> FALSE, ua |-> <<>>, r |-> NoResponse]
    ELSE IF Len(pool) = 0
    THEN [res |-> "raise", requested |-> FALSE, ua |-> <<>>, r |-> NoResponse]
    ELSE LET ua == pool[uai] IN
         IF net.get = "ok"
         THEN [res |-> "r", requested |-> TRUE, ua |-> ua, r |-> net.r]
         ELSE IF net.get = "interrupt"
         THEN [res |-> "exit", requested |-> TRUE, ua |-> ua, r |-> NoResponse]
         ELSE [res |-> "None", requested |-> TRUE, ua |-> ua, r |-> NoResponse]

TitleOpen == { "<title>", "<TITLE>" }
TitleClose == { "</title>", "</TITLE>" }

\* get_webpage_title(): the text between the first title tag and the first
\* closing tag after it, "" when there is none
get_webpage_title(r) ==
    LET opens == { i \in 1..Len(r.body) : r.body[i] \in TitleOpen }
    IN  IF opens = {} THEN <<>>
        ELSE LET i == CHOOSE x \in opens : \A y \in opens : x <= y
                 closes == { j \in (i + 1)..Len(r.body) : r.body[j] \in TitleClose }
             IN  IF closes = {} THEN <<>>
                 ELSE LET j == CHOOSE x \in closes : \A y \in closes : x <= y
                      IN  SubSeq(r.body, i + 1, j - 1)

-----------------------------------------------------------------------------
(* Enrichment *)

NoEntity == <<>>
Entity(roles, emails) == [roles |-> roles, emails |-> emails]

\* what IPWhois(ipaddr).lookup_rdap(depth=1) can give
RdapResults ==
    { [ok |-> FALSE, objects |-> NoEntity],
      [ok |-> TRUE, objects |-> NoEntity],
      [ok |-> TRUE, objects |-> <<Entity({"registrant"}, << <<"r@b">> >>)>>],
      [ok |-> TRUE, objects |-> <<Entity({"registrant"}, << <<"r@b">> >>),
                                  Entity({"abuse", "technical"}, << <<"x@b">>, <<"y@b">> >>),
                                  Entity({"abuse"}, << <<"z@b">> >>)>>],
      [ok |-> TRUE, objects |-> <<Entity({"abuse"}, <<>>)>>] }

AsnEmpty ==
    [asn |-> <<>>, asn_cidr |-> <<>>, asn_country_code |-> <<>>,
     asn_description |-> <<>>, asn_abuse_email |-> <<>>]

AsnOf(email) ==
    [asn |-> <<"64500">>, asn_cidr |-> <<"192.0.2.0/24">>, asn_country_code |-> <<"FR">>,
     asn_description |-> <<"EXAMPLE-AS">>, asn_abuse_email |-> email]

\* get_ASN_Infos(): the for loop assigns asn_abuse_email only at the first
\* entity with the 'abuse' role (the inner except gives "" when its contact
\* has no e-mail); when no entity has the role the name is unbound at the
\* return, and the outer except returns five empty strings
get_ASN_Infos(rdap) ==
    IF ~rdap.ok THEN AsnEmpty
    ELSE LET abuse == { i \in 1..Len(rdap.objects) : "abuse" \in rdap.objects[i].roles }
         IN  IF abuse = {} THEN AsnEmpty
             ELSE LET i == CHOOSE x \in abuse : \A y \in abuse : x <= y
                      emails == rdap.objects[i].emails
                  IN  IF Len(emails) = 0 THEN AsnOf(<<>>) ELSE AsnOf(emails[1])

IpAddr == <<"192.0.2.7">>
NoKeyStatus == <<"No API key in config file">>
SbStatus == <<"{}">>

RdapFailed == [ok |-> FALSE, objects |-> NoEntity]
RdapFull == CHOOSE d \in RdapResults : Len(d.objects) = 3

\* the network as one call of scan_hostname() finds it: the request fails or
\* is interrupted; the host answers and the name does not resolve; the host
\* answers, the RDAP lookup gives the registry's record (with the first
\* response) or fails (with the second), and the reputation lookup answers or
\* fails
NetFail == { [get |-> g, r |-> NoResponse, dns |-> "ok", rdap |-> RdapFailed, sb |-> "ok"] :
             g \in NetErrors \cup {"interrupt"} }
NetDnsFail == { [get |-> "ok", r |-> r, dns |-> "raise", rdap |-> RdapFailed, sb |-> "ok"] :
                r \in Responses }
NetOk == { [get |-> "ok", r |-> r, dns |-> "ok",
            rdap |-> IF r.status = 200 THEN registry ELSE RdapFailed, sb |-> b] :
           r \in Responses, b \in {"ok", "raise"} }
Nets == NetFail \cup NetDnsFail \cup NetOk

EmptyInfos == <<>>

\* scan_hostname() building the site_infos dict also when get_requests()
\* returned None
scan_hostname_keeps_failed(hostname, SerialNumber, pool, uai, net, key) ==
    LET g == get_requests(hostname, pool, uai, net)
        a == get_ASN_Infos(net.rdap)
    IN  [exit |-> g.res = "exit",
         infos |-> IF g.res \in {"exit", "raise"} THEN EmptyInfos
                   ELSE [hostname |-> hostname,
                         http_code |-> g.r.status,
                         cert_serial_number |-> SerialNumber,
                         webpage_title |-> get_webpage_title(g.r),
                         ip_addr |-> IpAddr,
                         asn |-> a.asn,
                         asn_cidr |-> a.asn_cidr,
                         asn_country_code |-> a.asn_country_code,
                         asn_description |-> a.asn_description,
                         asn_abuse_email |-> a.asn_abuse_email,
                         safe_browsing_status |-> IF key THEN SbStatus ELSE NoKeyStatus],
         requested |-> g.requested,
         ua |-> g.ua,
         probe |-> IF g.res = "exit" THEN "interrupt"
                   ELSE IF g.res = "raise" THEN "uaerror"
                   ELSE IF g.res = "r" THEN "ok"
                   ELSE IF g.requested THEN "failed" ELSE "skipped",
         code |-> g.r.status,
         enrich |-> IF g.res = "r" THEN "ok" ELSE "none"]

\* scan_hostname(): exit is TRUE when the interrupt handler called sys.exit;
\* infos is {} or the site_infos dict
scan_hostname(hostname, SerialNumber, pool, uai, net, key) ==
    LET g == get_requests(hostname, pool, uai, net)
        base == [exit |-> FALSE, infos |-> EmptyInfos, requested |-> g.requested,
                 ua |-> g.ua, probe |-> "failed", code |-> 0, enrich |-> "none"]
    IN  IF g.res = "exit" THEN [base EXCEPT !.exit = TRUE, !.probe = "interrupt"]
        ELSE IF g.res = "raise" THEN [base EXCEPT !.probe = "uaerror"]
        ELSE IF g.res = "None"
        THEN [base EXCEPT !.probe = IF g.requested THEN "failed" ELSE "skipped"]
        ELSE LET ok == [base EXCEPT !.probe = "ok", !.code = g.r.status] IN
             IF net.dns = "raise" THEN [ok EXCEPT !.enrich = "dns"]
             ELSE IF key /\ net.sb = "raise" THEN [ok EXCEPT !.enrich = "sb"]
             ELSE LET a == get_ASN_Infos(net.rdap) IN
                  [ok EXCEPT !.enrich = "ok", !.infos =
                    [hostname |-> hostname,
                     http_code |-> g.r.status,
                     cert_serial_number |-> SerialNumber,
                     webpage_title |-> get_webpage_title(g.r),
                     ip_addr |-> IpAddr,
                     asn |-> a.asn,
                     asn_cidr |-> a.asn_cidr,
                     asn_country_code |-> a.asn_country_code,
                     asn_description |-> a.asn_description,
                     asn_abuse_email |-> a.asn_abuse_email,
                     safe_browsing_status |-> IF key THEN SbStatus ELSE NoKeyStatus]]

-----------------------------------------------------------------------------
(* The alert writer *)

Alerts_dir == <<"/", "v">>
Json == <<".", "j", "s", "o", "n">>

\* hostname.split(".")
RECURSIVE split(_)
split(s) ==
    IF ~Contains(s, ".") THEN <<s>>
    ELSE LET i == CHOOSE x \in 1..Len(s) : s[x] = "." /\ \A y \in 1..(x - 1) : s[y] # "."
         IN  <<SubSeq(s, 1, i - 1)>> \o split(SubSeq(s, i + 1, Len(s)))

\* the split without the [::-1]
reversed_not(s) == s

\* [::-1]
reversed(s) == [i \in 1..Len(s) |-> s[Len(s) + 1 - i]]

\* for w in words: FQDN_dir = FQDN_dir + "/" + w
RECURSIVE join_dirs(_, _)
join_dirs(d, words) ==
    IF Len(words) = 0 THEN d
    ELSE join_dirs(d \o <<"/">> \o Head(words), Tail(words))

FQDN_dir(hostname) == join_dirs(Alerts_dir, reversed(split(hostname)))

\* the directory the artifact of hostname goes to
alert_dir(hostname, fqdn_dirs) == IF fqdn_dirs THEN FQDN_dir(hostname) ELSE Alerts_dir

\* the path given to open(..., "w")
alert_path(hostname, fqdn_dirs) == alert_dir(hostname, fqdn_dirs) \o <<"/">> \o hostname \o Json

\* os.makedirs(d, exist_ok=True) creates d and every missing parent
RECURSIVE prefixes(_, _)
prefixes(d, words) ==
    IF Len(words) = 0 THEN {d}
    ELSE {d} \cup prefixes(d \o <<"/">> \o Head(words), Tail(words))

makedirs(hostname, fqdn_dirs) ==
    IF fqdn_dirs THEN prefixes(Alerts_dir, reversed(split(hostname))) ELSE {}

-----------------------------------------------------------------------------
(* The state machine: one process per run, one step per row of the batch *)

NoConf == [fqdn_dirs |-> FALSE, notify |-> FALSE, key |-> FALSE]

\* the observation of a step; the fields a step does not reach keep these values
NoEv ==
    [kind |-> "init", Domain |-> <<>>, Fingerprint |-> <<>>, prev |-> Null,
     requested |-> FALSE, ua |-> <<>>, probe |-> "none", code |-> 0, enrich |-> "none",
     branch |-> "none", exc |-> "none", written |-> FALSE, artifact |-> <<>>,
     overwrote |-> FALSE, notified |-> FALSE, left |-> 0]

\* no process has run yet
Fresh ==
    /\ conf = NoConf
    /\ pc = "idle"
    /\ rows = <<>>
    /\ idx = 1
    /\ lines = <<>>
    /\ files = {}
    /\ dirs = {}
    /\ ev = NoEv
    /\ runs = 0
    /\ failedOnly = [i \in DOMAIN table |-> table[i].StillInvestig = Null]

Init ==
    /\ table \in Tables
    /\ MaxAttempts \in 1..MaxMaxAttempts
    /\ uafile = "one"
    /\ registry = RdapFull
    /\ Fresh

\* the long scenario: the first row starts unset, the configured maximum has
\* two digits
InitLong ==
    /\ table \in { t \in Tables : /\ t[1].StillInvestig = Null
                                  /\ ~Contains(t[1].Domain, "*")
                                  /\ \A i \in RowIds \ {1} : t[i] = [t[1] EXCEPT !.Fingerprint = FingerprintOf(i),
                                                                            !.StillInvestig = Text(<<"x">>)] }
    /\ MaxAttempts = LongMaxAttempts
    /\ uafile = "one"
    /\ registry = RdapFull
    /\ Fresh

\* the environment scenario: a three-label hostname, any user-agent file, any
\* record the registry can hold
EnvHostname == <<"m", ".", "e", ".", "c">>

EnvTables ==
    { t \in [RowIds -> [Domain : {EnvHostname}, Fingerprint : {FingerprintOf(i) : i \in RowIds},
                         StillInvestig : {Null, Text(<<"x">>)}]] :
        /\ \A i \in RowIds : t[i].Fingerprint = FingerprintOf(i)
        /\ t[1].StillInvestig = Null }

InitEnv ==
    /\ table \in EnvTables
    /\ MaxAttempts = 1
    /\ uafile \in UAFiles
    /\ registry \in { d \in RdapResults : d.ok }
    /\ Fresh

\* the process ends: return True / return False / sys.exit(0)
EndRun ==
    /\ pc' = "idle"
    /\ rows' = <<>>
    /\ idx' = 1
    /\ lines' = <<>>
    /\ conf' = NoConf
    /\ runs' = runs + 1

\* the loop stepping over the row after the current one
NextRow_skips ==
    IF idx + 1 >= Len(rows) THEN EndRun
    ELSE /\ idx' = idx + 2
         /\ UNCHANGED <<pc, rows, lines, conf, runs>>

\* the for loop goes to the next row, or the function returns True after the last
NextRow ==
    IF idx = Len(rows) THEN EndRun
    ELSE /\ idx' = idx + 1
         /\ UNCHANGED <<pc, rows, lines, conf, runs>>

\* the rows of the batch after the current one
Left == { i \in DOMAIN table : \E j \in (idx + 1)..Len(rows) :
            /\ rows[j].Domain = table[i].Domain
            /\ rows[j].Fingerprint = table[i].Fingerprint }

Current == { i \in DOMAIN table :
               /\ rows[idx].Domain = table[i].Domain
               /\ rows[idx].Fingerprint = table[i].Fingerprint }

Observe(e, ended) ==
    /\ ev' = [e EXCEPT !.left = IF ended THEN Len(rows) - idx ELSE 0]
    /\ failedOnly' = [i \in DOMAIN table |->
          IF i \in Current THEN failedOnly[i] /\ e.probe = "failed" /\ e.written
          ELSE IF ended /\ i \in Left THEN FALSE
          ELSE failedOnly[i]]

\* main(): ConfAnalysis, then parse_and_scan_all_hostnames up to the for loop
\* (os.makedirs(Alerts_dir) is taken to succeed: when it does not, every
\* open() of the run raises, which RowResolved covers with "open_raise")
StartRun(f, n, k) ==
    /\ pc = "idle"
    /\ runs < MaxAttempts + ExtraRuns
    /\ dirs' = dirs \cup {Alerts_dir}
    /\ ev' = [NoEv EXCEPT !.kind = "fetch"]
    /\ LET sel == fetch_pending(table) IN
         IF Len(sel) = 0
         THEN EndRun
         ELSE /\ pc' = "loop"
              /\ rows' = sel
              /\ idx' = 1
              /\ lines' = load_lines(uafile)
              /\ conf' = [fqdn_dirs |-> f, notify |-> n, key |-> k]
              /\ runs' = runs
    /\ UNCHANGED <<table, MaxAttempts, uafile, registry, files, failedOnly>>

RowEv ==
    [NoEv EXCEPT !.kind = "row", !.Domain = rows[idx].Domain,
                 !.Fingerprint = rows[idx].Fingerprint, !.prev = rows[idx].StillInvestig]

\* Attempts = int(Attempts) raises ValueError
ParseFails == ~rows[idx].StillInvestig.null /\ ~IntOk(rows[idx].StillInvestig.text)

\* Attempts as the loop body computes it before the scan
Attempts0 ==
    IF rows[idx].StillInvestig.null THEN 0 ELSE PyInt(rows[idx].StillInvestig.text)

\* the comparison with the maximum off by one
next_attempts_late(a, max) == IF a + 1 > max + 1 THEN Disabled ELSE PyStr(a + 1)

\* Attempts += 1; if Attempts > MaxAttempts: Attempts = "Disabled"; str(Attempts)
next_attempts(a, max) == IF a + 1 > max THEN Disabled ELSE PyStr(a + 1)

UaIndexes == IF Len(lines) = 0 THEN {1} ELSE 1..Len(lines)

Scan(uai, net) ==
    scan_hostname(rows[idx].Domain, rows[idx].Fingerprint, lines, uai, net, conf.key)

ScanEv(sc) ==
    [RowEv EXCEPT !.requested = sc.requested, !.ua = sc.ua, !.probe = sc.probe,
                  !.code = sc.code, !.enrich = sc.enrich]

\* int() raises in the loop body: except Exception, return False
RowParseError ==
    /\ pc = "loop"
    /\ ParseFails
    /\ Observe([RowEv EXCEPT !.exc = "parse"], TRUE)
    /\ EndRun
    /\ UNCHANGED <<table, MaxAttempts, uafile, registry, files, dirs>>

\* KeyboardInterrupt inside scan_hostname: sys.exit(0)
RowInterrupted(uai, net) ==
    /\ pc = "loop"
    /\ ~ParseFails
    /\ Scan(uai, net).exit
    /\ Observe([ScanEv(Scan(uai, net)) EXCEPT !.exc = "interrupt"], TRUE)
    /\ EndRun
    /\ UNCHANGED <<table, MaxAttempts, uafile, registry, files, dirs>>

\* site_infos is empty: the attempt counter is stored
RowFailed(uai, net, io) ==
    /\ pc = "loop"
    /\ ~ParseFails
    /\ LET sc == Scan(uai, net)
           e == [ScanEv(sc) EXCEPT !.branch = "attempt"]
       IN
       /\ ~sc.exit
       /\ DOMAIN sc.infos = {}
       /\ \/ /\ io = "write_raise"
             /\ Observe([e EXCEPT !.exc = "write"], TRUE)
             /\ EndRun
             /\ UNCHANGED table
          \/ /\ io = "intr_update"
             /\ table' = Update(table, next_attempts(Attempts0, MaxAttempts),
                                 rows[idx].Domain, rows[idx].Fingerprint)
             /\ Observe([e EXCEPT !.written = TRUE, !.exc = "interrupt"], TRUE)
             /\ EndRun
          \/ /\ io = "ok"
             /\ table' = Update(table, next_attempts(Attempts0, MaxAttempts),
                                 rows[idx].Domain, rows[idx].Fingerprint)
             /\ Observe([e EXCEPT !.written = TRUE], FALSE)
             /\ NextRow
    /\ UNCHANGED <<MaxAttempts, uafile, registry, files, dirs>>

\* json.dump(site_infos, open(path, "w"))
write_file(fs, path, content) ==
    { x \in fs : x.path # path } \cup { [path |-> path, content |-> content] }

\* site_infos is not empty: the timestamp is stored, then the artifact is
\* written, then the notification is sent
RowResolved(uai, net, io, now) ==
    /\ pc = "loop"
    /\ ~ParseFails
    /\ LET sc == Scan(uai, net)
           e == [ScanEv(sc) EXCEPT !.branch = "resolved"]
           hostname == rows[idx].Domain
           marked == Update(table, IsoFormat(now), hostname, rows[idx].Fingerprint)
           dir == alert_dir(hostname, conf.fqdn_dirs)
           path == alert_path(hostname, conf.fqdn_dirs)
           made == dirs \cup makedirs(hostname, conf.fqdn_dirs)
           w == [e EXCEPT !.written = TRUE]
           a == [w EXCEPT !.artifact = path,
                          !.overwrote = (\E x \in files : x.path = path)]
       IN
       /\ ~sc.exit
       /\ DOMAIN sc.infos # {}
       /\ \/ /\ io = "write_raise"
             /\ Observe([e EXCEPT !.exc = "write"], TRUE)
             /\ EndRun
             /\ UNCHANGED <<table, files, dirs>>
          \/ /\ io = "intr_update"
             /\ table' = marked
             /\ Observe([w EXCEPT !.exc = "interrupt"], TRUE)
             /\ EndRun
             /\ UNCHANGED <<files, dirs>>
          \/ /\ io = "mkdir_fail"
             /\ conf.fqdn_dirs
             /\ dir \notin dirs
             /\ table' = marked
             /\ Observe([w EXCEPT !.exc = "artifact"], TRUE)
             /\ EndRun
             /\ UNCHANGED <<files, dirs>>
          \/ /\ io = "open_raise" \/ (io \in {"ok", "intr_file", "notify_raise"} /\ dir \notin made)
             /\ table' = marked
             /\ dirs' = made
             /\ Observe([w EXCEPT !.exc = "artifact"], TRUE)
             /\ EndRun
             /\ UNCHANGED files
          \/ /\ io = "intr_file"
             /\ dir \in made
             /\ table' = marked
             /\ dirs' = made
             /\ files' = write_file(files, path, sc.infos)
             /\ Observe([a EXCEPT !.exc = "interrupt"], TRUE)
             /\ EndRun
          \/ /\ io = "notify_raise"
             /\ conf.notify
             /\ dir \in made
             /\ table' = marked
             /\ dirs' = made
             /\ files' = write_file(files, path, sc.infos)
             /\ Observe([a EXCEPT !.exc = "notify"], TRUE)
             /\ EndRun
          \/ /\ io = "ok"
             /\ dir \in made
             /\ table' = marked
             /\ dirs' = made
             /\ files' = write_file(files, path, sc.infos)
             /\ Observe([a EXCEPT !.notified = conf.notify], FALSE)
             /\ NextRow
    /\ UNCHANGED <<MaxAttempts, uafile, registry>>

IOs == { "ok", "write_raise", "intr_update", "mkdir_fail", "open_raise", "intr_file", "notify_raise" }

Next ==
    \/ \E f \in BOOLEAN, n \in BOOLEAN, k \in BOOLEAN : StartRun(f, n, k)
    \/ RowParseError
    \/ \E uai \in UaIndexes, net \in Nets : RowInterrupted(uai, net)
    \/ \E uai \in UaIndexes, net \in Nets, io \in IOs : RowFailed(uai, net, io)
    \/ \E uai \in UaIndexes, net \in Nets, io \in IOs, now \in Times : RowResolved(uai, net, io, now)

Spec == Init /\ [][Next]_vars

SpecLong == InitLong /\ [][Next]_vars

SpecEnv == InitEnv /\ [][Next]_vars

-----------------------------------------------------------------------------
(* The shapes of the investigation state, as the specification names them *)

IsUnset(v) == v.null
IsEmpty(v) == ~v.null /\ v.text = <<>>
IsPlaceholder(v) == ~v.null /\ Len(v.text) = 1
IsCount(v) == ~v.null /\ IntOk(v.text)
IsExhausted(v) == ~v.null /\ v.text = Disabled

\* YYYY-MM-DDTHH:MM:SS
IsResolved(v) ==
    /\ ~v.null
    /\ Len(v.text) = 19
    /\ \A i \in 1..19 :
          IF i \in {5, 8} THEN v.text[i] = "-"
          ELSE IF i = 11 THEN v.text[i] = "T"
          ELSE IF i \in {14, 17} THEN v.text[i] = ":"
          ELSE IsDigit(v.text[i])

\* the attempt count a state stands for: unset counts as 0
CountOf(v) == IF v.null THEN 0 ELSE PyInt(v.text)

SameKey(a, b) == a.Domain = b.Domain /\ a.Fingerprint = b.Fingerprint

\* row i of the table is in the batch s
InBatch(i, s) == \E j \in 1..Len(s) : SameKey(s[j], table[i])

\* the step about to be taken processes row i of the table
Processing(i) == pc = "loop" /\ SameKey(rows[idx], table[i])

\* the row the last step processed
LastRow(i) == ev.kind = "row" /\ SameKey(ev, table[i])

-----------------------------------------------------------------------------
(* Claims *)

\* C1: a row that starts unset and whose probe fails in every run holds the
\* count k after the k-th run for 1 <= k <= MaxAttempts, holds the exhausted
\* sentinel after run MaxAttempts + 1, and is then selected by no fetch.
C1_FailingRowCountsThenExhausts ==
    \A i \in DOMAIN table :
        (failedOnly[i] /\ pc = "idle" /\ runs >= 1) =>
            /\ runs <= MaxAttempts => table[i].StillInvestig = Text(PyStr(runs))
            /\ runs > MaxAttempts =>
                  /\ IsExhausted(table[i].StillInvestig)
                  /\ ~InBatch(i, fetch_pending(table))

\* C2: an exception raised while a row is processed (reading its stored state,
\* writing the artifact, notifying) leaves no later row of the batch
\* unprocessed and counts as a failed attempt of the row.
C2_RowExceptionIsolated ==
    (ev.kind = "row" /\ ev.exc \in {"parse", "artifact", "notify"}) =>
        /\ ev.left = 0
        /\ ev.branch = "attempt" /\ ev.written

\* C3: every row whose state is a numeric attempt count is selected by the
\* next fetch_pending.
C3_CountedRowIsPending ==
    \A i \in DOMAIN table :
        IsCount(table[i].StillInvestig) => InBatch(i, fetch_pending(table))

\* C4: no step lowers a row's attempt count, and no step changes the state of
\* an exhausted row.
C4_CounterMonotoneExhaustedFrozen ==
    [][\A i \in DOMAIN table :
         LET a == table[i].StillInvestig
             b == table'[i].StillInvestig
         IN  /\ IsExhausted(a) => b = a
             /\ ((IsUnset(a) \/ IsCount(a)) /\ IsCount(b)) => CountOf(b) >= CountOf(a)]_vars

C4_Witness ==
    \E i, j \in DOMAIN table :
        /\ IsExhausted(table[i].StillInvestig)
        /\ runs >= 2
        /\ LastRow(j) /\ ev.written /\ ev.branch = "attempt"
        /\ IsCount(ev.prev)
        /\ table[j].StillInvestig = Text(PyStr(CountOf(ev.prev) + 1))

\* C5: once a row is resolved, no step changes its state, no step processes
\* (probes) it, and no fetch selects it.
C5_ResolvedIsTerminal ==
    [][\A i \in DOMAIN table :
         IsResolved(table[i].StillInvestig) =>
            /\ table'[i] = table[i]
            /\ ~Processing(i)
            /\ (pc = "idle" /\ pc' = "loop") => ~\E j \in 1..Len(rows') : SameKey(rows'[j], table[i])]_vars

C5_Witness ==
    \E i \in DOMAIN table :
        /\ IsResolved(table[i].StillInvestig)
        /\ pc = "loop" /\ idx = 1 /\ runs >= 1

\* C6: when the HTTP probe of a row succeeded, a failing enrichment step does
\* not keep the row from the resolved branch.
C6_EnrichmentNeverBlocksResolved ==
    (ev.kind = "row" /\ ev.probe = "ok" /\ ev.enrich \in {"dns", "sb"}) =>
        ev.branch = "resolved"

\* C7: a fetch selects every row whose state is unset, empty or a single
\* character, and no row whose state is the exhausted sentinel or a resolved
\* timestamp.
C7_FetchPendingSelection ==
    ev.kind = "fetch" =>
        \A i \in DOMAIN table :
            LET v == table[i].StillInvestig
                got == IF pc = "loop" THEN InBatch(i, rows) ELSE FALSE
            IN  /\ (IsUnset(v) \/ IsEmpty(v) \/ IsPlaceholder(v)) => got
                /\ (IsExhausted(v) \/ IsResolved(v)) => ~got

C7_Witness ==
    /\ ev.kind = "fetch" /\ pc = "loop"
    /\ \E i, j \in DOMAIN table :
          /\ IsEmpty(table[i].StillInvestig) /\ InBatch(i, rows)
          /\ IsResolved(table[j].StillInvestig) /\ ~InBatch(j, rows)

C9_WriteFailureIsolated ==
    (ev.kind = "row" /\ ev.exc = "write") => ev.left = 0

\* the artifact at path p has the hostname, status code and fingerprint given
HasArtifact(fs, p, h, c, f) ==
    \E x \in fs :
        /\ x.path = p
        /\ x.content.hostname = h
        /\ x.content.http_code = c
        /\ x.content.cert_serial_number = f

\* C10: with fqdn-dirs disabled, a step that processes a pending row (unset or
\* counted) whose probe succeeds, and that no I/O error or interrupt cuts
\* short, leaves the artifact at Alerts_dir/<hostname>.json with the row's
\* hostname, the probe's status code and the row's fingerprint, and leaves the
\* row resolved.
C10_SuccessfulProbeResolves ==
    [][\A i \in DOMAIN table :
         ( /\ Processing(i)
           /\ ~conf.fqdn_dirs
           /\ IsUnset(table[i].StillInvestig) \/ IsCount(table[i].StillInvestig)
           /\ ev'.kind = "row" /\ ev'.probe = "ok" /\ ev'.exc = "none" )
         => /\ HasArtifact(files', Alerts_dir \o <<"/">> \o table[i].Domain \o Json,
                            table[i].Domain, ev'.code, table[i].Fingerprint)
            /\ IsResolved(table'[i].StillInvestig)]_vars

\* C11: when no process is running, every resolved row has an artifact written
\* for its hostname.
C11_ResolvedRowHasArtifact ==
    pc = "idle" =>
        \A i \in DOMAIN table :
            IsResolved(table[i].StillInvestig) =>
                \E x \in files : x.content.hostname = table[i].Domain

\* C12: no step writes an artifact to a path that already holds one.
C12_ArtifactNeverOverwritten ==
    ev.kind = "row" => ~ev.overwrote

\* C13: a step that processes a row whose probe was skipped or failed writes no
\* artifact, creates no directory, sends no notification, marks no row
\* resolved, and changes nothing in the store but the attempt counter of the
\* row it processes (to its count plus one, or to the exhausted sentinel).
C13_FailedProbeOnlyCounts ==
    [][(pc = "loop" /\ ev'.kind = "row" /\ ev'.probe \in {"skipped", "failed"}) =>
         /\ files' = files
         /\ dirs' = dirs
         /\ ~ev'.notified
         /\ ev'.artifact = <<>>
         /\ ev'.branch # "resolved"
         /\ \A i \in DOMAIN table :
               LET a == table[i].StillInvestig
                   b == table'[i].StillInvestig
               IN  table'[i] # table[i] =>
                     /\ Processing(i)
                     /\ table'[i] = [table[i] EXCEPT !.StillInvestig = b]
                     /\ ~IsResolved(b)
                     /\ \/ IsExhausted(b)
                        \/ IsCount(b) /\ CountOf(b) = CountOf(a) + 1]_vars

C13_Witness ==
    \E i, j \in DOMAIN table :
        /\ LastRow(i) /\ ev.probe = "failed" /\ ev.written
        /\ table[i].StillInvestig = Text(<<"1">>)
        /\ i # j /\ IsResolved(table[j].StillInvestig)
        /\ \A x \in files : x.content.hostname # table[i].Domain

\* C14: no step adds or removes a row or changes a row's hostname or
\* fingerprint, and a step changes the state of no row other than the one with
\* the (hostname, fingerprint) key it processes: rows that were not selected
\* and selected rows the run has not reached keep their state.
C14_OnlyProcessedRowChanges ==
    [][/\ DOMAIN table' = DOMAIN table
       /\ \A i \in DOMAIN table :
             /\ table'[i].Domain = table[i].Domain
             /\ table'[i].Fingerprint = table[i].Fingerprint
             /\ ~Processing(i) => table'[i] = table[i]]_vars

C14_Witness ==
    \E i, j \in DOMAIN table :
        /\ runs = 1 /\ pc = "idle"
        /\ LastRow(i) /\ ev.written /\ ev.exc = "interrupt" /\ ev.left >= 1
        /\ IsResolved(table[i].StillInvestig)
        /\ j # i /\ table[j].Domain = table[i].Domain
        /\ table[j].StillInvestig = Null

\* C15 as stated: in every reachable state every row's state is unset, an
\* attempt count, the exhausted sentinel or a resolved timestamp.
C15_FourShapesOnly ==
    \A i \in DOMAIN table :
        LET v == table[i].StillInvestig
        IN  IsUnset(v) \/ IsCount(v) \/ IsExhausted(v) \/ IsResolved(v)

\* C15 as amended: in every reachable state every row's state is unset, the
\* empty string or a one-character placeholder (the values fetch_pending
\* selects besides a count), an attempt count, the exhausted sentinel or a
\* resolved timestamp; and the value a step has just stored is complete: an
\* attempt count between 1 and the configured maximum, the exhausted sentinel
\* or a resolved timestamp.
C15_ShapesAndCompleteWrites ==
    \A i \in DOMAIN table :
        LET v == table[i].StillInvestig
        IN  /\ \/ IsUnset(v) \/ IsEmpty(v) \/ IsPlaceholder(v)
               \/ IsCount(v) \/ IsExhausted(v) \/ IsResolved(v)
            /\ (LastRow(i) /\ ev.written) =>
                  \/ IsCount(v) /\ CountOf(v) >= 1 /\ CountOf(v) <= MaxAttempts
                  \/ IsExhausted(v)
                  \/ IsResolved(v)

C15_Witness ==
    \E i, j \in DOMAIN table :
        /\ LastRow(i) /\ ev.written /\ ev.branch = "attempt"
        /\ MaxAttempts = 2
        /\ table[i].StillInvestig = Text(<<"2">>)
        /\ i # j /\ IsPlaceholder(table[j].StillInvestig) /\ ~IsCount(table[j].StillInvestig)

\* C16: the ownership fields of an artifact built from a found ownership
\* record keep the record's asn, cidr, country code and description; the abuse
\* e-mail is the first contact e-mail of the first entity with the "abuse"
\* role, and the empty string when no entity has the role or it has no e-mail.
C16_OwnershipDegradesPerField ==
    \A x \in files :
        x.content.http_code = 200 =>
            LET objects == registry.objects
                abuse == { i \in 1..Len(objects) : "abuse" \in objects[i].roles }
                first == CHOOSE i \in abuse : \A k \in abuse : i <= k
            IN  /\ x.content.asn = AsnOf(<<>>).asn
                /\ x.content.asn_cidr = AsnOf(<<>>).asn_cidr
                /\ x.content.asn_country_code = AsnOf(<<>>).asn_country_code
                /\ x.content.asn_description = AsnOf(<<>>).asn_description
                /\ x.content.asn_abuse_email =
                      IF abuse = {} THEN <<>>
                      ELSE IF Len(objects[first].emails) = 0 THEN <<>>
                      ELSE objects[first].emails[1]

\* C17: sampling the user agent never raises, whatever the loading of the
\* user-agent file gave, and when the file could not be read the user agent
\* of every request is the default string UA.
C17_UserAgentFallback ==
    ev.kind = "row" =>
        /\ ev.probe # "uaerror"
        /\ (uafile = "unreadable" /\ ev.requested) => ev.ua = UA

\* the position of the last dot of h
LastDot(h) == CHOOSE i \in 1..Len(h) : h[i] = "." /\ \A k \in (i + 1)..Len(h) : h[k] # "."

\* /ln/.../l2/l1 for h = l1.l2...ln
RECURSIVE NestedDir(_)
NestedDir(h) ==
    IF ~Contains(h, ".") THEN <<"/">> \o h
    ELSE <<"/">> \o SubSeq(h, LastDot(h) + 1, Len(h)) \o NestedDir(SubSeq(h, 1, LastDot(h) - 1))

\* the directory the artifact of h is expected in
ExpectedDir(h, nested) == IF nested THEN Alerts_dir \o NestedDir(h) ELSE Alerts_dir

\* C18: a step that writes the artifact of hostname l1.l2...ln writes it to
\* <base_dir>/ln/.../l2/l1/<hostname>.json when fqdn-dirs is enabled, with
\* every directory on the way existing afterwards, whether or not it existed
\* before, and to <base_dir>/<hostname>.json when it is disabled; a step that
\* resolves a row without an error writes the artifact.
C18_ArtifactPath ==
    [][(pc = "loop" /\ ev'.kind = "row") =>
         LET h == ev'.Domain
             d == ExpectedDir(h, conf.fqdn_dirs)
             expected == d \o <<"/">> \o h \o <<".", "j", "s", "o", "n">>
         IN  /\ (ev'.branch = "resolved" /\ ev'.exc = "none") => ev'.artifact # <<>>
             /\ ev'.artifact # <<>> =>
                   /\ ev'.artifact = expected
                   /\ \E x \in files' : x.path = expected /\ x.content.hostname = h
                   /\ \A n \in Len(Alerts_dir)..Len(d) :
                         (n = Len(d) \/ d[n + 1] = "/") => SubSeq(d, 1, n) \in dirs']_vars

C18_Witness ==
    /\ ev.kind = "row" /\ ev.exc = "none" /\ ev.overwrote
    /\ ev.Domain = <<"m", ".", "e", ".", "c">>
    /\ ev.artifact = <<"/", "v", "/", "c", "/", "e", "/", "m", "/",
                       "m", ".", "e", ".", "c", ".", "j", "s", "o", "n">>
    /\ <<"/", "v", "/", "c", "/", "e">> \in dirs

\* C19: a selected row whose stored state is the empty string or a non-digit
\* placeholder is processed as a row with count 0: reading its state raises
\* nothing, it is probed (or skipped as a wildcard), a failed or skipped probe
\* leaves its state at 1, and the rows after it are not dropped because of it.
C19_PlaceholderCountsAsZero ==
    \A i \in DOMAIN table :
        (LastRow(i) /\ ~ev.prev.null /\ ~IntOk(ev.prev.text)) =>
            /\ ev.exc # "parse"
            /\ ev.probe # "none"
            /\ (ev.probe \in {"failed", "skipped"} /\ ev.written) =>
                  table[i].StillInvestig = Text(<<"1">>)
            /\ ev.left > 0 => ev.exc = "interrupt"

\* C20: a run starts at the first row of what fetch_pending returned, in which
\* no row appears twice; every step of the run processes the row at the
\* current position, and unless it is interrupted or aborted it stores one
\* new state for that row (an attempt count, the exhausted sentinel or a
\* resolved timestamp) and then moves to the next position of the same batch,
\* or ends the run after the last row.
C20_RowsInOrderOnce ==
    [][/\ (pc = "idle" /\ pc' = "loop") =>
            /\ idx' = 1
            /\ rows' = fetch_pending(table)
            /\ \A j, k \in 1..Len(rows') : SameKey(rows'[j], rows'[k]) => j = k
       /\ pc = "loop" =>
            /\ ev'.kind = "row"
            /\ SameKey(ev', rows[idx])
            /\ ev'.exc = "none" =>
                  /\ ev'.written
                  /\ \E i \in DOMAIN table :
                        LET b == table'[i].StillInvestig
                        IN  /\ SameKey(table[i], rows[idx])
                            /\ table[i].StillInvestig = rows[idx].StillInvestig
                            /\ b # rows[idx].StillInvestig
                            /\ IsCount(b) \/ IsExhausted(b) \/ IsResolved(b)
                  /\ idx < Len(rows) => pc' = "loop" /\ idx' = idx + 1 /\ rows' = rows
                  /\ idx = Len(rows) => pc' = "idle" /\ runs' = runs + 1]_vars

C20_Witness ==
    /\ runs = 1 /\ pc = "idle"
    /\ LastRow(2) /\ ev.exc = "none" /\ ev.written /\ ev.prev = Null
    /\ table[2].StillInvestig = Text(<<"1">>)
    /\ IsResolved(table[1].StillInvestig)
    /\ \E x \in files : x.content.cert_serial_number = table[1].Fingerprint

====
